---- MODULE Spec2Model ----
(***************************************************************************)
(* Model of src/core/security/server_secure_chttp2.c: the secure HTTP/2     *)
(* listener of a grpc_server.  grpc_server_add_secure_http2_port builds a   *)
(* secured_port (tcp listener + security context + server back-reference)   *)
(* and registers it with the server; start, on_accept,                      *)
(* on_secure_transport_setup_done and destroy are its callbacks.            *)
(*                                                                          *)
(* Pointers are modelled by whether they are non-NULL (BOOLEAN).  Every     *)
(* resource carries an acquire/release ledger so that leaks and double      *)
(* releases are visible in the state.                                       *)
(***************************************************************************)
EXTENDS Integers, Sequences, FiniteSets, TLC

\* ---------------------------------------------------------------- bounds
\* Largest number of addresses one resolution returns.
MaxAddrs == 2
\* Number of calls of grpc_server_add_secure_http2_port in one behaviour.
MaxCalls == 1
\* Number of connections accepted in one behaviour (all listeners together).
MaxConns == 2
\* Ports the platform may hand out are 0..MaxPort.
MaxPort == 1

\* ------------------------------------------------------------- constants
\* int port_num = -1: "no port bound yet".
PORT_UNSET == -1
\* return 0 at the error label.
ERROR_RETURN == 0

GRPC_SECURITY_OK == "GRPC_SECURITY_OK"
GRPC_SECURITY_ERROR == "GRPC_SECURITY_ERROR"
Status == {GRPC_SECURITY_OK, GRPC_SECURITY_ERROR}

\* creds: NULL, or a credential whose type string is the SSL type, the fake
\* transport security type, or anything else.
Creds == {"NULL", "ssl", "fake", "other"}

\* What grpc_tcp_server_add_port may return for one address: a port, or a
\* negative value when the bind failed.
PortResults == -1..MaxPort

RECURSIVE SeqsUpTo(_, _)
SeqsUpTo(S, n) ==
    IF n = 0 THEN {<<>>}
    ELSE LET shorter == SeqsUpTo(S, n - 1)
         IN shorter \cup {Append(s, x) : s \in {t \in shorter : Len(t) = n - 1}, x \in S}

\* A resolved address set, each address given by what binding it returns.
AddrSets == SeqsUpTo(PortResults, MaxAddrs)

\* The resources one call of grpc_server_add_secure_http2_port can hold.
Resources == {"ctx", "resolved", "tcp", "sp"}

VARIABLES
    call,        \* locals and ledger of the latest grpc_server_add_secure_http2_port
    ncalls,      \* calls made so far
    listeners,   \* the server's registered listeners: one secured_port each
    conns,       \* accepted connections and their handshakes
    aborted      \* the process died in GPR_ASSERT

vars == <<call, ncalls, listeners, conns, aborted>>

\* --------------------------------------- grpc_server_add_secure_http2_port
\* The locals at entry, plus the ledger of the call.
locals ==
    [ creds     |-> "NULL",
      resolved  |-> FALSE,
      tcp       |-> FALSE,
      naddrs    |-> 0,
      count     |-> 0,
      port_num  |-> PORT_UNSET,
      status    |-> GRPC_SECURITY_ERROR,
      ctx       |-> FALSE,
      sp        |-> FALSE,
      \* ledger
      outcome   |-> "none",
      ret       |-> PORT_UNSET,
      acq       |-> [r \in Resources |-> 0],
      rel       |-> [r \in Resources |-> 0],
      resolve_calls |-> 0,
      tcp_create_calls |-> 0,
      add_port  |-> <<>>,
      bound     |-> <<>>,
      add_listener_calls |-> 0 ]

\* The SSL context constructor: it reports ssl_status and stores a context
\* through its out-parameter only with GRPC_SECURITY_OK; on failure no
\* context is produced and the caller's pointer keeps its value.
grpc_ssl_server_security_context_create(ssl_status, ctx) ==
    [status |-> ssl_status,
     ctx    |-> IF ssl_status = GRPC_SECURITY_OK THEN TRUE ELSE ctx]

\* Context creation by credential type, from status = GRPC_SECURITY_ERROR
\* and ctx = NULL: SSL credentials go to the SSL constructor, fake ones
\* always get a context, any other type leaves status and ctx alone.
security_context_create_default_ok(creds, ssl_status) ==
    IF creds = "ssl" THEN grpc_ssl_server_security_context_create(ssl_status, locals.ctx)
    ELSE IF creds = "fake" THEN [status |-> GRPC_SECURITY_OK, ctx |-> TRUE]
    ELSE [status |-> GRPC_SECURITY_OK, ctx |-> locals.ctx]

security_context_create(creds, ssl_status) ==
    IF creds = "ssl" THEN grpc_ssl_server_security_context_create(ssl_status, locals.ctx)
    ELSE IF creds = "fake" THEN [status |-> GRPC_SECURITY_OK, ctx |-> TRUE]
    ELSE [status |-> locals.status, ctx |-> locals.ctx]

released(held) == IF held THEN 1 ELSE 0

\* error: release whatever the locals hold, return 0.
error_leaks_tcp(l) ==
    [l EXCEPT !.rel = [ctx      |-> @.ctx + released(l.ctx),
                       resolved |-> @.resolved + released(l.resolved),
                       tcp      |-> @.tcp,
                       sp       |-> @.sp + released(l.sp)],
              !.outcome = "error",
              !.ret = ERROR_RETURN]

error(l) ==
    [l EXCEPT !.rel = [ctx      |-> @.ctx + released(l.ctx),
                       resolved |-> @.resolved + released(l.resolved),
                       tcp      |-> @.tcp + released(l.tcp),
                       sp       |-> @.sp + released(l.sp)],
              !.outcome = "error",
              !.ret = ERROR_RETURN]

\* One iteration of the bind loop on the address at index i, which binds
\* to port_temp.
bind_step_unchecked(l, i, port_temp) ==
    LET l1 == [l EXCEPT !.add_port = Append(@, port_temp)]
    IN IF port_temp >= 0
       THEN [l1 EXCEPT !.port_num = IF l.port_num = PORT_UNSET THEN port_temp ELSE @,
                       !.count = @ + 1,
                       !.bound = Append(@, [addr |-> i, port |-> port_temp])]
       ELSE l1

bind_step(l, i, port_temp) ==
    LET l1 == [l EXCEPT !.add_port = Append(@, port_temp)]
    IN IF port_temp >= 0
       THEN IF l.port_num = PORT_UNSET
            THEN [l1 EXCEPT !.port_num = port_temp,
                            !.count = @ + 1,
                            !.bound = Append(@, [addr |-> i, port |-> port_temp])]
            ELSE IF l.port_num = port_temp
                 THEN [l1 EXCEPT !.count = @ + 1,
                                 !.bound = Append(@, [addr |-> i, port |-> port_temp])]
                 ELSE [l1 EXCEPT !.outcome = "abort",
                                 !.bound = Append(@, [addr |-> i, port |-> port_temp])]
       ELSE l1

\* for (i = 0; i < resolved->naddrs; i++): stops early only by aborting.
RECURSIVE bind_loop(_, _, _)
bind_loop(l, addrs, i) ==
    IF i > Len(addrs) \/ l.outcome = "abort" THEN l
    ELSE bind_loop(bind_step(l, i, addrs[i]), addrs, i + 1)

\* After the loop: fail when nothing was bound, otherwise (with a warning
\* when only some addresses were bound) drop the address set, build the
\* secured_port and register it.
after_bind_ignores_count(l) ==
    [l EXCEPT !.rel.resolved = @ + 1,
              !.sp = TRUE,
              !.acq.sp = @ + 1,
              !.add_listener_calls = @ + 1,
              !.outcome = "ok",
              !.ret = l.port_num]

after_bind_registers_first(l) ==
    IF l.count = 0 THEN error([l EXCEPT !.add_listener_calls = @ + 1])
    ELSE after_bind_ignores_count(l)

after_bind_keeps_resolved(l) ==
    IF l.count = 0 THEN error(l)
    ELSE [l EXCEPT !.sp = TRUE,
                   !.acq.sp = @ + 1,
                   !.add_listener_calls = @ + 1,
                   !.outcome = "ok",
                   !.ret = l.port_num]

after_bind_strict(l) ==
    IF l.count # l.naddrs THEN error(l) ELSE after_bind_ignores_count(l)

after_bind(l) ==
    IF l.count = 0 THEN error(l)
    ELSE [l EXCEPT !.rel.resolved = @ + 1,
                   !.sp = TRUE,
                   !.acq.sp = @ + 1,
                   !.add_listener_calls = @ + 1,
                   !.outcome = "ok",
                   !.ret = l.port_num]

\* The whole function.  ssl_status, resolves/addrs and tcp_ok are what the
\* collaborators answer: the SSL context constructor, the resolver (NULL or
\* an address set) and grpc_tcp_server_create (NULL or a listener).
grpc_server_add_secure_http2_port(creds, ssl_status, resolves, addrs, tcp_ok) ==
    LET l0 == [locals EXCEPT !.creds = creds]
        sc == security_context_create(creds, ssl_status)
        l1 == [l0 EXCEPT !.status = sc.status,
                         !.ctx = sc.ctx,
                         !.acq.ctx = released(sc.ctx)]
        l2 == [l1 EXCEPT !.resolve_calls = 1,
                         !.resolved = resolves,
                         !.naddrs = IF resolves THEN Len(addrs) ELSE 0,
                         !.acq.resolved = released(resolves)]
        l3 == [l2 EXCEPT !.tcp_create_calls = 1,
                         !.tcp = tcp_ok,
                         !.acq.tcp = released(tcp_ok)]
        l4 == bind_loop(l3, addrs, 1)
    IN IF creds = "NULL" THEN error(l0)
       ELSE IF l1.status # GRPC_SECURITY_OK THEN error(l1)
       ELSE IF ~l2.resolved THEN error(l2)
       ELSE IF ~l3.tcp THEN error(l3)
       ELSE IF l4.outcome = "abort" THEN l4
       ELSE after_bind(l4)

\* ------------------------------------------------------------- callbacks
\* The secured_port a successful call hands to grpc_server_add_listener.
\* tcp is the listener's state, ctx_refs the reference count of the
\* security context it points to.
secured_port(l) ==
    [ tcp          |-> "created",
      tcp_destroys |-> 0,
      ctx_refs     |-> 1,
      ctx_unrefs   |-> 0,
      frees        |-> 0,
      started      |-> FALSE,
      destroyed    |-> FALSE ]

\* start: grpc_tcp_server_start(sp->tcp, pollsets, pollset_count, on_accept, sp)
\* makes the listener accept connections and call on_accept for each.
start_drops_ctx(sp) ==
    [sp EXCEPT !.tcp = "listening",
               !.started = TRUE,
               !.ctx_refs = @ - 1,
               !.ctx_unrefs = @ + 1]

start(sp) ==
    [sp EXCEPT !.tcp = "listening", !.started = TRUE]

\* What grpc_setup_secure_transport does to the context it is given: the
\* handshake it starts holds its own reference to the context.
grpc_setup_secure_transport(sp) ==
    [sp EXCEPT !.ctx_refs = @ + 1]

\* The handshake drops its reference to the context when it completes.
secure_transport_setup_release(sp) ==
    [sp EXCEPT !.ctx_refs = @ - 1]

\* setup_transport: what grpc_server_setup_transport is given for a new
\* transport: the server, the two extra filters in this order, their
\* number, and the metadata context.
setup_transport(server, mdctx) ==
    [ server  |-> server,
      extra_filters |-> <<"grpc_http_server_filter", "grpc_http_filter">>,
      num_extra_filters |-> 2,
      mdctx   |-> mdctx ]

\* A connection without a transport.
no_transport ==
    [ channel_args |-> "none",
      setup |-> [server |-> "none", extra_filters |-> <<>>,
                 num_extra_filters |-> 0, mdctx |-> 0] ]

\* grpc_mdctx_create: a metadata context no earlier call returned, n
\* being the number of contexts created so far.
grpc_mdctx_create(n) == n + 1

\* on_accept: hand the connection to grpc_setup_secure_transport with
\* sp->ctx, the completion callback and sp->server as its argument.  i is
\* the listener the connection came in on; setups counts the handshakes
\* started for the connection, endpoint is who owns the connection,
\* freed_reads the reads of freed secured_port storage made for it.
on_accept_passes_sp(i, sp) ==
    [ sp          |-> i,
      user_data   |-> "sp",
      hs          |-> "pending",
      status      |-> "none",
      setups      |-> 1,
      endpoint    |-> "handshake",
      failed_before |-> 0,
      transports  |-> 0,
      freed_reads |-> 0,
      transport   |-> no_transport,
      accepted_after_destroy |-> sp.destroyed,
      done_after_destroy     |-> FALSE ]

on_accept_waits(i, sp) ==
    [ sp          |-> i,
      user_data   |-> "server",
      hs          |-> "done",
      status      |-> GRPC_SECURITY_OK,
      setups      |-> 1,
      endpoint    |-> "transport",
      failed_before |-> 0,
      transports  |-> 1,
      freed_reads |-> 0,
      transport   |-> [channel_args |-> "server", setup |-> setup_transport("server", 1)],
      accepted_after_destroy |-> sp.destroyed,
      done_after_destroy     |-> FALSE ]

on_accept(i, sp) ==
    [ sp          |-> i,
      user_data   |-> "server",
      hs          |-> "pending",
      status      |-> "none",
      setups      |-> 1,
      endpoint    |-> "handshake",
      failed_before |-> 0,
      transports  |-> 0,
      freed_reads |-> 0,
      transport   |-> no_transport,
      accepted_after_destroy |-> sp.destroyed,
      done_after_destroy     |-> FALSE ]

\* How a handshake ends, before it calls the completion callback: with
\* GRPC_SECURITY_OK the secured connection is passed to the callback,
\* otherwise the connection is closed and the callback gets none.
secure_transport_setup_finish(c, status) ==
    [c EXCEPT !.endpoint = IF status = GRPC_SECURITY_OK THEN "callback" ELSE "closed"]

\* on_secure_transport_setup_done: with GRPC_SECURITY_OK create the chttp2
\* transport on the secure endpoint, otherwise log.  The transport is
\* created from the callback's argument (grpc_server_get_channel_args of
\* it, and the argument itself): were that the secured_port, and destroy
\* had already freed it (sp_destroyed), this would read freed storage.
\* mdctx is what grpc_mdctx_create() returns for this call; the transport
\* gets the channel args of the callback's argument, and setup_transport
\* is run for it with that argument and mdctx.
on_secure_transport_setup_done_any_status(c, status, sp_destroyed, mdctx) ==
    [c EXCEPT !.hs = "done",
              !.status = status,
              !.endpoint = IF @ = "callback" THEN "transport" ELSE @,
              !.transports = @ + 1,
              !.transport = [channel_args |-> c.user_data,
                             setup |-> setup_transport(c.user_data, mdctx)],
              !.done_after_destroy = sp_destroyed]

on_secure_transport_setup_done_drops_endpoint(c, status, sp_destroyed, mdctx) ==
    [c EXCEPT !.hs = "done",
              !.status = status,
              !.transports = IF status = GRPC_SECURITY_OK THEN @ + 1 ELSE @,
              !.transport = IF status = GRPC_SECURITY_OK
                            THEN [channel_args |-> c.user_data,
                                  setup |-> setup_transport(c.user_data, mdctx)]
                            ELSE @,
              !.done_after_destroy = sp_destroyed]

on_secure_transport_setup_done_shared_mdctx(c, status, sp_destroyed, mdctx) ==
    [c EXCEPT !.hs = "done",
              !.status = status,
              !.endpoint = IF status = GRPC_SECURITY_OK THEN "transport" ELSE @,
              !.transports = IF status = GRPC_SECURITY_OK THEN @ + 1 ELSE @,
              !.transport = IF status = GRPC_SECURITY_OK
                            THEN [channel_args |-> c.user_data,
                                  setup |-> setup_transport(c.user_data, 1)]
                            ELSE @,
              !.done_after_destroy = sp_destroyed]

on_secure_transport_setup_done(c, status, sp_destroyed, mdctx) ==
    [c EXCEPT !.hs = "done",
              !.status = status,
              !.endpoint = IF status = GRPC_SECURITY_OK THEN "transport" ELSE @,
              !.transports = IF status = GRPC_SECURITY_OK THEN @ + 1 ELSE @,
              !.transport = IF status = GRPC_SECURITY_OK
                            THEN [channel_args |-> c.user_data,
                                  setup |-> setup_transport(c.user_data, mdctx)]
                            ELSE @,
              !.freed_reads = IF status = GRPC_SECURITY_OK /\ c.user_data = "sp" /\ sp_destroyed
                              THEN @ + 1 ELSE @,
              !.done_after_destroy = sp_destroyed]

\* What on_secure_transport_setup_done does to the secured_port the
\* connection came in on: nothing, whatever the status.  It is given the
\* server, not the secured_port, and its failure branch only logs.
setup_done_stops_listener(sp, status) ==
    IF status = GRPC_SECURITY_OK THEN sp ELSE [sp EXCEPT !.tcp = "destroyed"]

setup_done_on_port(sp, status) == sp

\* destroy: grpc_tcp_server_destroy(sp->tcp), which stops the accept
\* callbacks; grpc_security_context_unref(sp->ctx); gpr_free(sp).
destroy_keeps_listening(sp) ==
    [sp EXCEPT !.ctx_refs = @ - 1,
               !.ctx_unrefs = @ + 1,
               !.frees = @ + 1,
               !.destroyed = TRUE]

destroy_keeps_ctx(sp) ==
    [sp EXCEPT !.tcp = "destroyed",
               !.tcp_destroys = @ + 1,
               !.frees = @ + 1,
               !.destroyed = TRUE]

destroy_leaks_sp(sp) ==
    [sp EXCEPT !.tcp = "destroyed",
               !.tcp_destroys = @ + 1,
               !.ctx_refs = @ - 1,
               !.ctx_unrefs = @ + 1,
               !.destroyed = TRUE]

destroy(sp) ==
    [sp EXCEPT !.tcp = "destroyed",
               !.tcp_destroys = @ + 1,
               !.ctx_refs = @ - 1,
               !.ctx_unrefs = @ + 1,
               !.frees = @ + 1,
               !.destroyed = TRUE]

Init ==
    /\ call = locals
    /\ ncalls = 0
    /\ listeners = <<>>
    /\ conns = <<>>
    /\ aborted = FALSE

\* The answers of collaborators the call never asks are left at a fixed
\* value, so that each run of the function is drawn once: the SSL
\* constructor is asked only for SSL credentials, the resolver only once a
\* context exists, grpc_tcp_server_create only once the address resolved,
\* and an address is bound only once the listener exists.
Asked(creds, ssl_status, resolves, addrs, tcp_ok) ==
    LET has_ctx == security_context_create(creds, ssl_status).ctx
    IN /\ creds # "ssl" => ssl_status = GRPC_SECURITY_OK
       /\ ~has_ctx => ~resolves
       /\ ~resolves => addrs = <<>> /\ ~tcp_ok
       /\ ~tcp_ok => \A i \in DOMAIN addrs : addrs[i] = -1

\* A call of grpc_server_add_secure_http2_port, with every answer the
\* collaborators can give.
AddSecurePort ==
    /\ ~aborted
    /\ ncalls < MaxCalls
    /\ \E creds \in Creds, ssl_status \in Status, resolves \in BOOLEAN, tcp_ok \in BOOLEAN :
       \E addrs \in (IF resolves THEN AddrSets ELSE {<<>>}) :
         /\ Asked(creds, ssl_status, resolves, addrs, tcp_ok)
         /\ LET l == grpc_server_add_secure_http2_port(creds, ssl_status, resolves, addrs, tcp_ok)
           IN /\ call' = l
              /\ ncalls' = ncalls + 1
              /\ aborted' = (l.outcome = "abort")
              /\ listeners' = IF l.add_listener_calls > 0
                              THEN Append(listeners, secured_port(l))
                              ELSE listeners
              /\ UNCHANGED conns

\* The server starts a registered listener: at most once, and not after
\* destroying it.
Start ==
    /\ ~aborted
    /\ \E i \in DOMAIN listeners :
         /\ ~listeners[i].started
         /\ ~listeners[i].destroyed
         /\ listeners' = [listeners EXCEPT ![i] = start(@)]
    /\ UNCHANGED <<call, ncalls, conns, aborted>>

\* The handshakes of listener i that completed with an error.
Failed(i) ==
    {k \in DOMAIN conns : /\ conns[k].sp = i
                          /\ conns[k].hs = "done"
                          /\ conns[k].status # GRPC_SECURITY_OK}

\* The tcp listener accepts a connection and calls on_accept; it does so
\* only while it is listening.  failed_before records how many handshakes
\* of the listener had failed by then.
Accept ==
    /\ ~aborted
    /\ Len(conns) < MaxConns
    /\ \E i \in DOMAIN listeners :
         /\ listeners[i].tcp = "listening"
         /\ conns' = Append(conns,
                [on_accept(i, listeners[i]) EXCEPT !.failed_before = Cardinality(Failed(i))])
         /\ listeners' = [listeners EXCEPT ![i] = grpc_setup_secure_transport(@)]
    /\ UNCHANGED <<call, ncalls, aborted>>

\* The metadata contexts created so far: one for each transport.
MdctxCreated ==
    Cardinality({k \in DOMAIN conns : conns[k].transports > 0})

\* A handshake completes, with any status, and calls
\* on_secure_transport_setup_done.
SetupDone ==
    /\ ~aborted
    /\ \E k \in DOMAIN conns, status \in Status :
         /\ conns[k].hs = "pending"
         /\ conns' = [conns EXCEPT ![k] =
                on_secure_transport_setup_done(secure_transport_setup_finish(@, status),
                                               status, listeners[conns[k].sp].destroyed,
                                               grpc_mdctx_create(MdctxCreated))]
         /\ listeners' = [listeners EXCEPT ![conns[k].sp] =
                setup_done_on_port(secure_transport_setup_release(@), status)]
    /\ UNCHANGED <<call, ncalls, aborted>>

\* The server destroys a registered listener: exactly once, started or not.
Destroy ==
    /\ ~aborted
    /\ \E i \in DOMAIN listeners :
         /\ ~listeners[i].destroyed
         /\ listeners' = [listeners EXCEPT ![i] = destroy(@)]
    /\ UNCHANGED <<call, ncalls, conns, aborted>>

Next ==
    \/ AddSecurePort
    \/ Start
    \/ Accept
    \/ SetupDone
    \/ Destroy

Spec == Init /\ [][Next]_vars

\* ------------------------------------------------------------ properties
\* The addresses of the latest call whose bind succeeded (result >= 0).
BoundAddrs == {i \in DOMAIN call.add_port : call.add_port[i] >= 0}

\* The latest call ran its bind loop to the end (no abort on the way).
LoopCompleted ==
    /\ call.tcp
    /\ call.outcome # "abort"
    /\ Len(call.add_port) = call.naddrs

\* Every stage of the latest call succeeded: context created, address
\* resolved, listener created, at least one bind, no abort.
Succeeded ==
    /\ call.acq.ctx = 1
    /\ call.acq.resolved = 1
    /\ call.acq.tcp = 1
    /\ BoundAddrs # {}
    /\ call.outcome # "abort"

\* The handshakes of listener i that have not completed yet.
InFlight(i) == {k \in DOMAIN conns : conns[k].sp = i /\ conns[k].hs = "pending"}

\* C1: when grpc_server_add_secure_http2_port fails, every resource the
\* call acquired (context reference, address set, tcp listener,
\* secured_port storage) has been released exactly once when it returns,
\* and nothing it did not acquire has been released.
C1_FailureReleasesAll ==
    call.outcome = "error" =>
        \A r \in Resources : call.acq[r] <= 1 /\ call.rel[r] = call.acq[r]

\* A failed call that held a context, an address set and a listener.
C1_Witness ==
    /\ call.outcome = "error"
    /\ call.acq.ctx = 1 /\ call.acq.resolved = 1 /\ call.acq.tcp = 1

\* C2: a call registers a listener with the server if and only if its
\* whole sequence succeeded; a failing or aborting call registers nothing
\* and leaves the server's listeners as they were.
C2_RegisteredIffSucceeded ==
    [][ncalls' # ncalls =>
          /\ call'.add_listener_calls = (IF Succeeded' THEN 1 ELSE 0)
          /\ Len(listeners') = Len(listeners) + call'.add_listener_calls
          /\ \A i \in DOMAIN listeners : listeners'[i] = listeners[i]
          /\ (call'.outcome \in {"error", "abort"} => listeners' = listeners)]_vars

\* A failed call after which the server has no listener.
C2_Witness ==
    /\ call.outcome = "error"
    /\ call.acq.tcp = 1
    /\ listeners = <<>>

\* C3: a successful call never returns the value a failed call returns.
C3_SuccessDiffersFromFailure ==
    call.outcome = "ok" => call.ret # ERROR_RETURN

\* C4: the first successful bind fixes port_num; a later successful bind
\* on another port aborts the call before registration, so the sockets of
\* a registered listener all have the port the call returned.
C4_PortConsistency ==
    /\ (\E i, j \in BoundAddrs : call.add_port[i] # call.add_port[j]) =>
           (call.outcome = "abort" /\ call.add_listener_calls = 0)
    /\ call.add_listener_calls > 0 =>
           /\ \A k \in DOMAIN call.bound : call.bound[k].port = call.port_num
           /\ \A i \in BoundAddrs :
                  (\A j \in BoundAddrs : i <= j) => call.port_num = call.add_port[i]

\* A call that bound two addresses to different ports and aborted.
C4_Witness ==
    /\ call.outcome = "abort"
    /\ \E i, j \in BoundAddrs : call.add_port[i] # call.add_port[j]

\* C5: when only M of the N resolved addresses bind, 0 < M < N, the call
\* succeeds: it returns the port of the successful binds, registers the
\* listener, and the listener holds exactly the M bound addresses.
C5_PartialBindSucceeds ==
    (LoopCompleted /\ BoundAddrs # {} /\ Cardinality(BoundAddrs) < call.naddrs) =>
        /\ call.outcome = "ok"
        /\ \A i \in BoundAddrs : call.ret = call.add_port[i]
        /\ call.add_listener_calls = 1
        /\ Len(listeners) >= 1
        /\ Len(call.bound) = Cardinality(BoundAddrs)
        /\ {call.bound[k].addr : k \in DOMAIN call.bound} = BoundAddrs

\* A successful call in which one address bound and another did not.
C5_Witness ==
    /\ LoopCompleted
    /\ BoundAddrs # {}
    /\ Cardinality(BoundAddrs) < call.naddrs
    /\ call.outcome = "ok"

\* C6: when no resolved address binds, the call fails: it returns the
\* failure value, releases the context, the listener and the address set,
\* and registers nothing.
C6_ZeroBindsFail ==
    (LoopCompleted /\ BoundAddrs = {}) =>
        /\ call.outcome = "error"
        /\ call.ret = ERROR_RETURN
        /\ call.rel.ctx = 1 /\ call.rel.tcp = 1 /\ call.rel.resolved = 1
        /\ call.add_listener_calls = 0
        /\ call.acq.sp = 0

\* A call whose addresses all failed to bind.
C6_Witness ==
    /\ LoopCompleted
    /\ call.naddrs > 0
    /\ BoundAddrs = {}

\* C7: once destroy has returned for a secured_port, neither on_accept nor
\* on_secure_transport_setup_done runs again for it.
C7_NoCallbackAfterDestroy ==
    \A k \in DOMAIN conns :
        ~conns[k].accepted_after_destroy /\ ~conns[k].done_after_destroy

\* C8: handshakes in flight at destroy run to completion, and one that
\* completes after destroy builds no transport.
C8_NoTransportAfterDestroy ==
    \A k \in DOMAIN conns :
        /\ conns[k].hs = "pending" => conns[k].status = "none"
        /\ conns[k].done_after_destroy => conns[k].transports = 0

\* C9: the context's reference count is the number of its owners, the
\* secured_port until destroy plus every handshake in flight: it is not
\* zero while a handshake is in flight, and it is zero once destroy has
\* run and every handshake has completed.
C9_ContextLivesUntilLastOwner ==
    \A i \in DOMAIN listeners :
        /\ InFlight(i) # {} => listeners[i].ctx_refs > 0
        /\ (listeners[i].destroyed /\ InFlight(i) = {}) => listeners[i].ctx_refs = 0
        /\ listeners[i].ctx_refs =
               (IF listeners[i].destroyed THEN 0 ELSE 1) + Cardinality(InFlight(i))

\* A destroyed secured_port with a handshake still in flight.
C9_Witness ==
    \E i \in DOMAIN listeners :
        /\ listeners[i].destroyed
        /\ InFlight(i) # {}
        /\ listeners[i].ctx_refs > 0

\* C10: destroy stops the listener, drops the secured_port's context
\* reference and frees the secured_port, each exactly once, whether or not
\* start was called; before destroy none of the three has happened.
C10_DestroyReleasesOnce ==
    \A i \in DOMAIN listeners :
        IF listeners[i].destroyed
        THEN /\ listeners[i].tcp = "destroyed"
             /\ listeners[i].tcp_destroys = 1
             /\ listeners[i].ctx_unrefs = 1
             /\ listeners[i].frees = 1
        ELSE /\ listeners[i].tcp # "destroyed"
             /\ listeners[i].tcp_destroys = 0
             /\ listeners[i].ctx_unrefs = 0
             /\ listeners[i].frees = 0

\* A secured_port destroyed without ever having been started.
C10_Witness ==
    \E i \in DOMAIN listeners :
        listeners[i].destroyed /\ ~listeners[i].started

\* C11: a completed handshake has built exactly one transport when its
\* status is GRPC_SECURITY_OK and none otherwise; a pending one has built
\* none; and no connection ever gets a second handshake.
C11_TransportIffOK ==
    \A k \in DOMAIN conns :
        /\ conns[k].setups = 1
        /\ conns[k].hs = "pending" => conns[k].transports = 0
        /\ conns[k].hs = "done" =>
               conns[k].transports = (IF conns[k].status = GRPC_SECURITY_OK THEN 1 ELSE 0)

\* One handshake completed with GRPC_SECURITY_OK, another with an error.
C11_Witness ==
    \E j, k \in DOMAIN conns :
        /\ conns[j].hs = "done" /\ conns[j].status = GRPC_SECURITY_OK
        /\ conns[k].hs = "done" /\ conns[k].status = GRPC_SECURITY_ERROR

\* C12: a connection is owned by its handshake until the handshake
\* completes, and from then on by exactly one of the transport (status
\* GRPC_SECURITY_OK) and nobody, being closed (any other status); the
\* handshake keeps nothing of it.
C12_OneOwner ==
    \A k \in DOMAIN conns :
        /\ conns[k].hs = "pending" => conns[k].endpoint = "handshake"
        /\ conns[k].hs = "done" =>
               /\ conns[k].endpoint \in {"transport", "closed"}
               /\ conns[k].endpoint = "transport" <=> conns[k].status = GRPC_SECURITY_OK
               /\ conns[k].endpoint = "transport" <=> conns[k].transports = 1
               /\ conns[k].endpoint = "closed" <=> conns[k].transports = 0

\* One connection handed to a transport and another one closed.
C12_Witness ==
    \E j, k \in DOMAIN conns :
        conns[j].endpoint = "transport" /\ conns[k].endpoint = "closed"

\* C13: a handshake that fails changes nothing but its own connection: the
\* step leaves every other connection as it was and the secured_port as it
\* was, but for the reference the handshake itself held on the context; so
\* a started secured_port keeps listening with a live context however many
\* handshakes failed, until destroy.
C13_FailureContained ==
    /\ [](\A i \in DOMAIN listeners :
            (listeners[i].started /\ ~listeners[i].destroyed) =>
                (listeners[i].tcp = "listening" /\ listeners[i].ctx_refs >= 1))
    /\ [][\A k \in DOMAIN conns :
            (conns[k].hs = "pending" /\ conns'[k].hs = "done"
                 /\ conns'[k].status # GRPC_SECURITY_OK) =>
                /\ listeners' = [listeners EXCEPT ![conns[k].sp].ctx_refs = @ - 1]
                /\ \A j \in DOMAIN conns : j # k => conns'[j] = conns[j]]_vars

\* A connection accepted after a handshake of the same listener had failed
\* has completed its own handshake and got a transport.
C13_Witness ==
    \E k \in DOMAIN conns :
        /\ conns[k].failed_before >= 1
        /\ conns[k].transports = 1

\* C14: on_accept returns with the handshake it started still pending and
\* without touching any other connection, whatever handshakes are pending
\* at that moment; handshakes complete in any order (see the witness).
C14_AcceptDoesNotWait ==
    [][Len(conns') # Len(conns) =>
          /\ Len(conns') = Len(conns) + 1
          /\ conns'[Len(conns')].hs = "pending"
          /\ conns'[Len(conns')].endpoint = "handshake"
          /\ \A k \in DOMAIN conns : conns'[k] = conns[k]]_vars

\* The first connection's handshake is still pending while a connection
\* accepted later has completed its own.
C14_Witness ==
    /\ Len(conns) >= 2
    /\ conns[1].hs = "pending"
    /\ conns[2].hs = "done"

\* C15: with a NULL credential or one of an unrecognized type the call
\* fails having produced no context and done nothing else: no resolution,
\* no listener created, no address bound, nothing released, nothing
\* registered.
C15_BadCredentialStopsEarly ==
    (call.outcome # "none" /\ call.creds \in {"NULL", "other"}) =>
        /\ call.outcome = "error"
        /\ call.ret = ERROR_RETURN
        /\ call.status # GRPC_SECURITY_OK
        /\ \A r \in Resources : call.acq[r] = 0 /\ call.rel[r] = 0
        /\ call.resolve_calls = 0
        /\ call.tcp_create_calls = 0
        /\ call.add_port = <<>>
        /\ call.add_listener_calls = 0

\* A call with a credential of unrecognized type has returned.
C15_Witness ==
    /\ call.outcome = "error"
    /\ call.creds = "other"

\* C16: a registered secured_port is idle (listener created) until start,
\* accepting (listener listening) from start until destroy, and destroyed
\* for ever after; on_accept runs for it only while it is accepting.
C16_Lifecycle ==
    /\ [](\A i \in DOMAIN listeners :
            /\ listeners[i].tcp = "created" <=>
                   (~listeners[i].started /\ ~listeners[i].destroyed)
            /\ listeners[i].tcp = "listening" <=>
                   (listeners[i].started /\ ~listeners[i].destroyed)
            /\ listeners[i].tcp = "destroyed" <=> listeners[i].destroyed)
    /\ [][/\ \A i \in DOMAIN listeners :
                /\ i \in DOMAIN listeners'
                /\ listeners[i].started => listeners'[i].started
                /\ listeners[i].destroyed =>
                       /\ listeners'[i].destroyed
                       /\ listeners'[i].tcp = "destroyed"
                       /\ listeners'[i].started = listeners[i].started
          /\ Len(conns') # Len(conns) =>
                LET i == conns'[Len(conns')].sp
                IN /\ listeners[i].started
                   /\ ~listeners[i].destroyed
                   /\ listeners[i].tcp = "listening"]_vars

\* A secured_port that was started, accepted a connection and was destroyed.
C16_Witness ==
    \E i \in DOMAIN listeners :
        /\ listeners[i].started
        /\ listeners[i].destroyed
        /\ \E k \in DOMAIN conns : conns[k].sp = i

\* C17: a successful call releases neither the listener, the context nor
\* the secured_port, which it hands to the server live; from then on only
\* the destroy step stops the listener, drops the secured_port's reference
\* to the context or frees the secured_port: start, on_accept and
\* handshake completion do none of these.
C17_OnlyDestroyReleases ==
    /\ [](call.outcome = "ok" =>
            call.rel.tcp = 0 /\ call.rel.ctx = 0 /\ call.rel.sp = 0)
    /\ [](\A i \in DOMAIN listeners :
            ~listeners[i].destroyed => listeners[i].ctx_refs >= 1)
    /\ [][/\ \A i \in DOMAIN listeners :
                (\/ listeners'[i].tcp_destroys # listeners[i].tcp_destroys
                 \/ listeners'[i].ctx_unrefs # listeners[i].ctx_unrefs
                 \/ listeners'[i].frees # listeners[i].frees
                 \/ (listeners'[i].tcp = "destroyed" /\ listeners[i].tcp # "destroyed"))
                    => (~listeners[i].destroyed /\ listeners'[i].destroyed
                            /\ conns' = conns /\ call' = call)
          /\ \A i \in DOMAIN listeners' \ DOMAIN listeners :
                /\ listeners'[i].tcp = "created"
                /\ listeners'[i].tcp_destroys = 0
                /\ listeners'[i].ctx_refs = 1
                /\ listeners'[i].ctx_unrefs = 0
                /\ listeners'[i].frees = 0]_vars

\* A secured_port that was started and saw a handshake complete, and is
\* not destroyed: its listener and its context reference are untouched.
C17_Witness ==
    \E i \in DOMAIN listeners :
        /\ listeners[i].started
        /\ ~listeners[i].destroyed
        /\ listeners[i].tcp_destroys = 0
        /\ listeners[i].ctx_unrefs = 0
        /\ \E k \in DOMAIN conns : conns[k].sp = i /\ conns[k].hs = "done"

\* C18: whenever the resolver returned an address set, the call has
\* destroyed it exactly once when it returns, on success as on failure,
\* and a call that got none destroys none; the secured_port has no member
\* for it.
C18_AddressSetTransient ==
    /\ call.outcome \in {"ok", "error"} =>
           /\ call.acq.resolved = call.resolve_calls * released(call.resolved)
           /\ call.rel.resolved = call.acq.resolved
    /\ \A i \in DOMAIN listeners :
           DOMAIN listeners[i] \cap {"resolved", "addrs", "naddrs"} = {}

\* A successful call, which had an address set and destroyed it.
C18_Witness ==
    /\ call.outcome = "ok"
    /\ call.acq.resolved = 1
    /\ call.rel.resolved = 1
    /\ listeners # <<>>

\* C19: the completion callback's argument is the server, never the
\* secured_port, so no completion reads freed secured_port storage, not
\* even one that runs after destroy has freed the secured_port.
C19_CompletionIgnoresPort ==
    \A k \in DOMAIN conns :
        /\ conns[k].user_data = "server"
        /\ conns[k].freed_reads = 0

\* A handshake completed with GRPC_SECURITY_OK after its secured_port was
\* destroyed and freed.
C19_Witness ==
    \E k \in DOMAIN conns :
        /\ conns[k].done_after_destroy
        /\ conns[k].status = GRPC_SECURITY_OK
        /\ listeners[conns[k].sp].frees = 1

\* C20: every transport is set up with the HTTP server filter first and
\* the HTTP filter second, and no other, with the server and its channel
\* args, and with a metadata context no other transport has; a connection
\* without a transport has none of these.
C20_TransportSetup ==
    \A k \in DOMAIN conns :
        IF conns[k].transports > 0
        THEN /\ conns[k].transport.setup.extra_filters =
                    <<"grpc_http_server_filter", "grpc_http_filter">>
             /\ conns[k].transport.setup.num_extra_filters = 2
             /\ conns[k].transport.setup.server = "server"
             /\ conns[k].transport.channel_args = "server"
             /\ conns[k].transport.setup.mdctx > 0
             /\ \A j \in DOMAIN conns :
                    (j # k /\ conns[j].transports > 0) =>
                        conns[j].transport.setup.mdctx # conns[k].transport.setup.mdctx
        ELSE conns[k].transport = no_transport

\* Two connections that each got a transport.
C20_Witness ==
    \E j, k \in DOMAIN conns :
        j # k /\ conns[j].transports > 0 /\ conns[k].transports > 0
====
